---- MODULE Spec2Model ----
(***************************************************************************)
(* The scheduled-post store of the social-media scheduling backend and the *)
(* handlers that act on it: POST/PUT/DELETE /api/schedule/posts,           *)
(* POST /api/schedule/posts/:id/publish-now and the per-minute cron sweep. *)
(*                                                                         *)
(* Node runs every handler and the cron callback to completion on one      *)
(* thread (none of them awaits), so each is one atomic action.  The store  *)
(* is a module-level array: every server process has its own.  The model   *)
(* follows the routes module that declares the store; routes/schedule.js   *)
(* holds the same handlers, text for text, over a store it never declares. *)
(*                                                                         *)
(* POST /api/social/publish (routes/social.js) awaits one save() of a Post *)
(* document per platform: the handler is a frame that moves one platform   *)
(* per step, over postCollection, the Post collection of the database.    *)
(* Requests to it are served one after the other.                         *)
(*                                                                         *)
(* Spec is the schedule routes; SpecIds is the same routes after a delete; *)
(* SpecList is creation on a store of up to a page and more, read by       *)
(* GET /api/schedule/posts; SpecSocial is POST /api/social/publish;        *)
(* SpecSchedule is POST /api/social/schedule with the sweep.               *)
(*                                                                         *)
(* Time is counted in minutes since 00:00 UTC of day 0; a day has DayLen   *)
(* minutes.  A scheduledDate string is [iso, plain, day]: plain = TRUE is   *)
(* the calendar date YYYY-MM-DD.  A scheduledTime string is [ok, min, pad]:*)
(* pad = FALSE is the spelling with a one-digit hour ("9:00"), which the   *)
(* route's regular expression accepts.                                     *)
(***************************************************************************)
EXTENDS Integers, Sequences, FiniteSets, TLC

VARIABLES scheduledPosts, now, tz, resp, nreq, nextObj, postCollection, frame

vars == <<scheduledPosts, now, tz, resp, nreq, nextObj, postCollection, frame>>

-----------------------------------------------------------------------------
(* Bounds of the model *)

DayLen == 2
MaxDay == 2
MaxStart == 1
MaxRequests == 2
MaxTargets == 3
MaxFill == 17

MaxNow == (MaxDay + 1) * DayLen - 1

Days == 0..MaxDay
Users == {1, 2}
TzOffsets == {-1, 0, 1}

-----------------------------------------------------------------------------
(* Optional values: a missing request field or an undefined property *)

None == <<>>
Some(v) == <<v>>
IsSome(o) == o # <<>>
Val(o) == o[1]

-----------------------------------------------------------------------------
(* Date and time strings *)

DateStr(d) == [iso |-> TRUE, plain |-> TRUE, day |-> d]
TimeStr(m) == [ok |-> TRUE, min |-> m, pad |-> TRUE]

\* isISO8601()
IsISO8601(d) == d.iso

\* matches(/^([0-1]?[0-9]|2[0-3]):[0-5][0-9]$/): the hour may have one digit
MatchesTime(t) == t.ok

\* new Date(`${scheduledDate}T${scheduledTime}`): YYYY-MM-DDTHH:MM without an
\* offset is local time; any other text (a one-digit hour, a date string that
\* already holds a time) is no ECMAScript date-time string and gives an
\* Invalid Date (None).
ParseDateTime(d, t, offset) ==
    IF d.plain /\ t.pad
    THEN Some(d.day * DayLen + t.min - offset)
    ELSE None

\* scheduledDateTime <= new Date(): false when scheduledDateTime is NaN
NotAfterNow(parsed, t) == IsSome(parsed) /\ Val(parsed) <= t

\* now.toTimeString().slice(0, 5): the local HH:MM
CurrentTime(t, offset) == TimeStr((t + offset) % DayLen)

\* now.toISOString().split('T')[0]: the UTC calendar date
CurrentDate(t) == DateStr(t \div DayLen)

-----------------------------------------------------------------------------
(* The store *)

SchedulePlatforms == {"twitter", "linkedin", "instagram"}

\* An item of scheduledPosts.  Three fields are history, not properties of
\* the object in the source: obj is the identity of the JavaScript object,
\* picked counts the times it was moved out of 'scheduled', and setAt is the
\* time of the request that last wrote scheduledDate or scheduledTime.
SeedPost(o, i, p, d, m, c) ==
    [obj |-> o, id |-> i, userId |-> 1, content |-> "seed", platform |-> p,
     scheduledDate |-> DateStr(d), scheduledTime |-> TimeStr(m),
     status |-> "scheduled", mediaUrls |-> None, tags |-> None,
     createdAt |-> c, updatedAt |-> None, publishedAt |-> None,
     picked |-> 0, setAt |-> None]

\* Day 0 is 2025-09-27; the seeds were created the day before
MockPosts ==
    << SeedPost(1, 1, "twitter", 0, 0, 0 - DayLen),
       SeedPost(2, 2, "linkedin", 0, DayLen - 1, 0 - DayLen),
       SeedPost(3, 3, "twitter", 1, 0, 1 - DayLen) >>

\* What the last step answered.  target is history: the object the request
\* addressed (its :id and token), negative when that object belongs to
\* another user than the requester, 0 when there is none.
Reply(op, code, message, target) ==
    [op |-> op, code |-> code, message |-> message, target |-> target]

\* No publish request has come in
Idle ==
    [pc |-> "idle", userId |-> 0, content |-> "", platforms |-> <<>>,
     i |-> 0, publishResults |-> <<>>, response |-> None]

Init ==
    /\ scheduledPosts = MockPosts
    /\ now \in 0..MaxStart
    /\ tz \in TzOffsets
    /\ resp = Reply("start", 0, "", 0)
    /\ nreq = 0
    /\ nextObj = Len(MockPosts) + 1
    /\ postCollection = <<>>
    /\ frame = Idle

-----------------------------------------------------------------------------
(* authenticateToken *)

NoToken == [kind |-> "none", userId |-> 0]
ForgedToken == [kind |-> "forged", userId |-> 1]
ValidToken(u) == [kind |-> "valid", userId |-> u]
Tokens == {NoToken, ForgedToken} \cup {ValidToken(u) : u \in Users}

\* Mutant: the middleware lets every request through
AuthenticatedAlways(token) == TRUE

\* jwt.verify succeeds on a token signed with the server's secret
Authenticated(token) == token.kind = "valid"

AuthReply(op, token) ==
    IF token.kind = "none"
    THEN Reply(op, 401, "Access denied. No token provided.", 0)
    ELSE Reply(op, 401, "Invalid token", 0)

\* A request is counted, and leaves the clock alone
Request ==
    /\ nreq < MaxRequests
    /\ nreq' = nreq + 1
    /\ UNCHANGED <<now, tz, postCollection, frame>>

Rejected(reply) ==
    /\ resp' = reply
    /\ UNCHANGED <<scheduledPosts, nextObj>>

\* Mutant: the lookup goes by id alone
FindIndexAnyOwner(posts, postId, userId) ==
    LET hits == {i \in 1..Len(posts) : posts[i].id = postId}
    IN  IF hits = {} THEN 0 ELSE CHOOSE i \in hits : \A j \in hits : i <= j

\* findIndex(p => p.id === postId && p.userId === req.userId): 0 is -1
FindIndex(posts, postId, userId) ==
    LET hits == {i \in 1..Len(posts) :
                    posts[i].id = postId /\ posts[i].userId = userId}
    IN  IF hits = {} THEN 0 ELSE CHOOSE i \in hits : \A j \in hits : i <= j

\* The object a request with this token and :id addresses: the first item
\* with that id among the requester's own; when the requester has none, the
\* first item with that id of another user, negated; 0 when nobody has one.
Addressed(posts, token, postId) ==
    LET own == {i \in 1..Len(posts) :
                    posts[i].id = postId /\ posts[i].userId = token.userId}
        foreign == {i \in 1..Len(posts) :
                    posts[i].id = postId /\ posts[i].userId # token.userId}
        First(S) == CHOOSE i \in S : \A j \in S : i <= j
    IN  IF ~Authenticated(token) THEN 0
        ELSE IF own # {} THEN posts[First(own)].obj
        ELSE IF foreign # {} THEN 0 - posts[First(foreign)].obj
        ELSE 0

-----------------------------------------------------------------------------
(* Request bodies *)

Body(c, p, d, t, m, g) ==
    [content |-> c, platform |-> p, scheduledDate |-> d, scheduledTime |-> t,
     mediaUrls |-> m, tags |-> g]

\* A request that passes every check when its date and time are in the future
Base(d, t) == Body(Some("a"), Some("twitter"), Some(d), Some(t), None, None)

NoPatch == Body(None, None, None, None, None, None)

DateTimeDate == [iso |-> TRUE, plain |-> FALSE, day |-> 0]
BadDate == [iso |-> FALSE, plain |-> FALSE, day |-> 0]
OneDigitHour == [ok |-> TRUE, min |-> DayLen - 1, pad |-> FALSE]
BadTime == [ok |-> FALSE, min |-> 0, pad |-> TRUE]

\* Creation requests: the base request over the calendar dates and HH:MM
\* times, the base request with one field changed, and one with media and tags
CreateBodies ==
    {Base(DateStr(d), TimeStr(m)) : d \in Days, m \in 0..(DayLen - 1)}
        \cup {Base(DateStr(0), OneDigitHour),
              Base(DateTimeDate, TimeStr(0)),
              Base(BadDate, TimeStr(0)),
              Base(DateStr(MaxDay), BadTime),
              Body(Some("a"), Some("linkedin"), Some(DateStr(MaxDay)),
                   Some(TimeStr(0)), Some(<<"m">>), Some(<<"t">>)),
              Body(Some(""), Some("twitter"), Some(DateStr(MaxDay)),
                   Some(TimeStr(0)), None, None),
              Body(Some("a"), Some("facebook"), Some(DateStr(MaxDay)),
                   Some(TimeStr(0)), None, None),
              Body(Some("a"), Some("myspace"), Some(DateStr(MaxDay)),
                   Some(TimeStr(0)), None, None)}

\* Patches: one field, date and time together, or nothing
UpdateBodies ==
    {Body(None, None, Some(d), None, None, None) :
        d \in {DateStr(k) : k \in Days} \cup {BadDate}}
        \cup {Body(None, None, None, Some(t), None, None) :
                t \in {TimeStr(m) : m \in 0..(DayLen - 1)} \cup {BadTime}}
        \cup {Body(None, None, Some(DateStr(d)), Some(TimeStr(0)), None, None) :
                d \in Days}
        \cup {Body(None, None, Some(DateStr(0)), Some(OneDigitHour), None, None)}
        \cup {Body(c, None, None, None, None, None) : c \in {Some(""), Some("b")}}
        \cup {Body(None, p, None, None, None, None) :
                p \in {Some("linkedin"), Some("facebook")}}
        \cup {Body(None, None, None, None, Some(<<>>), Some(<<"t">>)), NoPatch}

PostIds == 1..(Len(MockPosts) + 1)

\* A request without a valid token is the same whatever it asks for
Credentials(first) ==
    {ValidToken(u) : u \in Users}
        \cup (IF first THEN {NoToken, ForgedToken} ELSE {})

-----------------------------------------------------------------------------
(* POST /api/schedule/posts *)

\* The validation chain of the route
CreateValid(b) ==
    /\ IsSome(b.content) /\ Val(b.content) # ""
    /\ IsSome(b.platform) /\ Val(b.platform) \in SchedulePlatforms
    /\ IsSome(b.scheduledDate) /\ IsISO8601(Val(b.scheduledDate))
    /\ IsSome(b.scheduledTime) /\ MatchesTime(Val(b.scheduledTime))

\* mediaUrls || [], tags || []
OrEmpty(o) == IF IsSome(o) THEN o ELSE Some(<<>>)

\* Mutant: the media URLs of the request are not stored
NewPostWithoutMedia(posts, userId, b, t, o) ==
    [obj |-> o, id |-> Len(posts) + 1, userId |-> userId,
     content |-> Val(b.content), platform |-> Val(b.platform),
     scheduledDate |-> Val(b.scheduledDate),
     scheduledTime |-> Val(b.scheduledTime),
     status |-> "scheduled",
     mediaUrls |-> Some(<<>>), tags |-> OrEmpty(b.tags),
     createdAt |-> t, updatedAt |-> Some(t), publishedAt |-> None,
     picked |-> 0, setAt |-> Some(t)]

NewPost(posts, userId, b, t, o) ==
    [obj |-> o, id |-> Len(posts) + 1, userId |-> userId,
     content |-> Val(b.content), platform |-> Val(b.platform),
     scheduledDate |-> Val(b.scheduledDate),
     scheduledTime |-> Val(b.scheduledTime),
     status |-> "scheduled",
     mediaUrls |-> OrEmpty(b.mediaUrls), tags |-> OrEmpty(b.tags),
     createdAt |-> t, updatedAt |-> Some(t), publishedAt |-> None,
     picked |-> 0, setAt |-> Some(t)]

CreateFutureCheckFails(b, t, offset) ==
    NotAfterNow(ParseDateTime(Val(b.scheduledDate), Val(b.scheduledTime), offset), t)

CreatePost(token, b) ==
    /\ Request
    /\ IF ~Authenticated(token)
       THEN Rejected(AuthReply("create", token))
       ELSE IF ~CreateValid(b)
       THEN Rejected(Reply("create", 400, "Validation errors", 0))
       ELSE IF CreateFutureCheckFails(b, now, tz)
       THEN Rejected(Reply("create", 400,
                "Scheduled date and time must be in the future", 0))
       ELSE /\ scheduledPosts' =
                  Append(scheduledPosts,
                         NewPost(scheduledPosts, token.userId, b, now, nextObj))
            /\ nextObj' = nextObj + 1
            /\ resp' = Reply("create", 201, "Post scheduled successfully", nextObj)

-----------------------------------------------------------------------------
(* PUT /api/schedule/posts/:id *)

\* Every validator is optional(): it runs only on a field that is present
UpdateValid(b) ==
    /\ IsSome(b.content) => Val(b.content) # ""
    /\ IsSome(b.platform) => Val(b.platform) \in SchedulePlatforms
    /\ IsSome(b.scheduledDate) => IsISO8601(Val(b.scheduledDate))
    /\ IsSome(b.scheduledTime) => MatchesTime(Val(b.scheduledTime))

\* Mutant: the update handler without its status check
UpdateNeverBlocked(post) == FALSE

\* if (scheduledPosts[postIndex].status === 'published')
UpdateBlocked(post) == post.status = "published"

\* if (scheduledDate && scheduledTime) { ... <= new Date() }
UpdateFutureCheckFails(b, t, offset) ==
    /\ IsSome(b.scheduledDate) /\ IsSome(b.scheduledTime)
    /\ NotAfterNow(ParseDateTime(Val(b.scheduledDate), Val(b.scheduledTime),
                                 offset), t)

Patch(o, old) == IF IsSome(o) THEN Val(o) ELSE old

\* Mutant: the fields are patched and updatedAt is left alone
UpdatedWithoutTimestamp(post, b, t) ==
    [post EXCEPT
        !.content = Patch(b.content, @),
        !.platform = Patch(b.platform, @),
        !.scheduledDate = Patch(b.scheduledDate, @),
        !.scheduledTime = Patch(b.scheduledTime, @),
        !.mediaUrls = IF IsSome(b.mediaUrls) THEN b.mediaUrls ELSE @,
        !.tags = IF IsSome(b.tags) THEN b.tags ELSE @,
        !.setAt = IF IsSome(b.scheduledDate) \/ IsSome(b.scheduledTime)
                  THEN Some(t) ELSE @]

Updated(post, b, t) ==
    [post EXCEPT
        !.content = Patch(b.content, @),
        !.platform = Patch(b.platform, @),
        !.scheduledDate = Patch(b.scheduledDate, @),
        !.scheduledTime = Patch(b.scheduledTime, @),
        !.mediaUrls = IF IsSome(b.mediaUrls) THEN b.mediaUrls ELSE @,
        !.tags = IF IsSome(b.tags) THEN b.tags ELSE @,
        !.updatedAt = Some(t),
        !.setAt = IF IsSome(b.scheduledDate) \/ IsSome(b.scheduledTime)
                  THEN Some(t) ELSE @]

\* Mutant: the fields are written before the date and time are compared
\* with the clock
UpdatePostCheckingLast(token, postId, b) ==
    /\ Request
    /\ LET postIndex == FindIndex(scheduledPosts, postId, token.userId)
           target == Addressed(scheduledPosts, token, postId)
       IN  IF ~Authenticated(token)
           THEN Rejected(AuthReply("update", token))
           ELSE IF ~UpdateValid(b)
           THEN Rejected(Reply("update", 400, "Validation errors", target))
           ELSE IF postIndex = 0
           THEN Rejected(Reply("update", 404, "Scheduled post not found", target))
           ELSE IF UpdateBlocked(scheduledPosts[postIndex])
           THEN Rejected(Reply("update", 400, "Cannot update published post", target))
           ELSE /\ scheduledPosts' =
                      [scheduledPosts EXCEPT
                          ![postIndex] = Updated(@, b, now)]
                /\ resp' = IF UpdateFutureCheckFails(b, now, tz)
                           THEN Reply("update", 400,
                                  "Scheduled date and time must be in the future",
                                  target)
                           ELSE Reply("update", 200,
                                  "Scheduled post updated successfully", target)
                /\ UNCHANGED nextObj

UpdatePost(token, postId, b) ==
    /\ Request
    /\ LET postIndex == FindIndex(scheduledPosts, postId, token.userId)
           target == Addressed(scheduledPosts, token, postId)
       IN  IF ~Authenticated(token)
           THEN Rejected(AuthReply("update", token))
           ELSE IF ~UpdateValid(b)
           THEN Rejected(Reply("update", 400, "Validation errors", target))
           ELSE IF postIndex = 0
           THEN Rejected(Reply("update", 404, "Scheduled post not found", target))
           ELSE IF UpdateBlocked(scheduledPosts[postIndex])
           THEN Rejected(Reply("update", 400, "Cannot update published post", target))
           ELSE IF UpdateFutureCheckFails(b, now, tz)
           THEN Rejected(Reply("update", 400,
                    "Scheduled date and time must be in the future", target))
           ELSE /\ scheduledPosts' =
                      [scheduledPosts EXCEPT
                          ![postIndex] = Updated(@, b, now)]
                /\ resp' = Reply("update", 200,
                                 "Scheduled post updated successfully", target)
                /\ UNCHANGED nextObj

-----------------------------------------------------------------------------
(* DELETE /api/schedule/posts/:id *)

\* Mutant: delete without its status check
DeleteNeverBlocked(post) == FALSE

\* if (scheduledPosts[postIndex].status === 'published')
DeleteBlocked(post) == post.status = "published"

\* scheduledPosts.splice(postIndex, 1)
Splice(posts, i) ==
    [k \in 1..(Len(posts) - 1) |-> IF k < i THEN posts[k] ELSE posts[k + 1]]

DeletePost(token, postId) ==
    /\ Request
    /\ LET postIndex == FindIndex(scheduledPosts, postId, token.userId)
           target == Addressed(scheduledPosts, token, postId)
       IN  IF ~Authenticated(token)
           THEN Rejected(AuthReply("delete", token))
           ELSE IF postIndex = 0
           THEN Rejected(Reply("delete", 404, "Scheduled post not found", target))
           ELSE IF DeleteBlocked(scheduledPosts[postIndex])
           THEN Rejected(Reply("delete", 400, "Cannot delete published post", target))
           ELSE /\ scheduledPosts' = Splice(scheduledPosts, postIndex)
                /\ resp' = Reply("delete", 200,
                                 "Scheduled post deleted successfully", target)
                /\ UNCHANGED nextObj

-----------------------------------------------------------------------------
(* GET /api/schedule/upcoming *)

\* now.getTime() + 7 * 24 * 60 * 60 * 1000
WindowDays == 7

\* .slice(0, 10)
UpcomingLimit == 10

\* new Date(`${post.scheduledDate}T${post.scheduledTime}`)
PostDateTime(post, offset) ==
    ParseDateTime(post.scheduledDate, post.scheduledTime, offset)

\* The filter: the requester's own, in 'scheduled', and
\* postDateTime >= now && postDateTime <= sevenDaysFromNow, which is false
\* for an Invalid Date
UpcomingFilter(post, userId, t, offset) ==
    /\ post.userId = userId
    /\ post.status = "scheduled"
    /\ IsSome(PostDateTime(post, offset))
    /\ Val(PostDateTime(post, offset)) >= t
    /\ Val(PostDateTime(post, offset)) <= t + WindowDays * DayLen

\* Array.prototype.filter
RECURSIVE Filtered(_, _, _, _)
Filtered(s, userId, t, offset) ==
    IF s = <<>> THEN <<>>
    ELSE IF UpcomingFilter(Head(s), userId, t, offset)
         THEN <<Head(s)>> \o Filtered(Tail(s), userId, t, offset)
         ELSE Filtered(Tail(s), userId, t, offset)

\* Array.prototype.sort with the comparator dateTimeA - dateTimeB, which is
\* stable: an element goes behind the elements with an earlier date and
\* time, and behind those with the same date and time that stood before it
Sorted(s, offset) ==
    LET Key(list, i) == Val(PostDateTime(list[i], offset))
        Place(list, i) ==
            1 + Cardinality({j \in 1..Len(list) :
                                \/ Key(list, j) < Key(list, i)
                                \/ Key(list, j) = Key(list, i) /\ j < i})
    IN  CHOOSE sorted \in
            {[k \in 1..Len(list) |->
                 list[CHOOSE i \in 1..Len(list) : Place(list, i) = k]] :
             list \in {s}} : TRUE

\* Array.prototype.slice(0, n)
Slice(s, n) == SubSeq(s, 1, IF Len(s) < n THEN Len(s) ELSE n)

\* upcomingPosts of the response
Upcoming(postList, userId, t, offset) ==
    Slice(Sorted(Filtered(postList, userId, t, offset), offset), UpcomingLimit)

-----------------------------------------------------------------------------
(* GET /api/schedule/posts *)

\* parseInt(limit) || 20
DefaultLimit == 20

\* scheduledPosts.filter(post => post.userId === req.userId)
OwnedBy(s, userId) == SelectSeq(s, LAMBDA post : post.userId = userId)

\* userPosts after the sort by date and time, for a request without status,
\* platform, startDate and endDate.  The order is the one of the comparator
\* only when every date and time parses.
UserPosts(postList, userId, offset) == Sorted(OwnedBy(postList, userId), offset)

\* parseInt(limit) || 20 and parseInt(offset) || 0: 0 and a missing
\* parameter give the default
LimitNum(limit) ==
    IF IsSome(limit) /\ Val(limit) # 0 THEN Val(limit) ELSE DefaultLimit
OffsetNum(skip) == IF IsSome(skip) THEN Val(skip) ELSE 0

\* userPosts.slice(offsetNum, offsetNum + limitNum)
Paginated(s, limit, skip) ==
    LET first == OffsetNum(skip) + 1
        last == OffsetNum(skip) + LimitNum(limit)
    IN  SubSeq(s, first, IF Len(s) < last THEN Len(s) ELSE last)

\* posts of the response
GetPosts(postList, userId, limit, skip, offset) ==
    Paginated(UserPosts(postList, userId, offset), limit, skip)

-----------------------------------------------------------------------------
(* POST /api/schedule/posts/:id/publish-now *)

\* Mutant: publish-now without its status check
PublishNowNeverBlocked(post) == FALSE

\* Mutant: publish-now refuses drafts only
PublishNowBlockedOnDraftOnly(post) == post.status = "draft"

\* if (scheduledPosts[postIndex].status !== 'scheduled')
PublishNowBlocked(post) == post.status # "scheduled"

\* Mutant: the status is written but publishedAt is not
PublishedWithoutTimestamp(post, t) ==
    [post EXCEPT !.status = "published", !.updatedAt = Some(t),
                 !.picked = @ + 1]

\* Mutant: publishedAt is written and the status is left alone
PublishedKeepingStatus(post, t) ==
    [post EXCEPT !.publishedAt = Some(t), !.updatedAt = Some(t),
                 !.picked = @ + 1]

\* status = 'published'; publishedAt = new Date(); updatedAt = new Date()
Published(post, t) ==
    [post EXCEPT !.status = "published", !.publishedAt = Some(t),
                 !.updatedAt = Some(t), !.picked = @ + 1]

PublishNow(token, postId) ==
    /\ Request
    /\ LET postIndex == FindIndex(scheduledPosts, postId, token.userId)
           target == Addressed(scheduledPosts, token, postId)
       IN  IF ~Authenticated(token)
           THEN Rejected(AuthReply("publish-now", token))
           ELSE IF postIndex = 0
           THEN Rejected(Reply("publish-now", 404, "Scheduled post not found", target))
           ELSE IF PublishNowBlocked(scheduledPosts[postIndex])
           THEN Rejected(Reply("publish-now", 400,
                    "Post is not in scheduled status", target))
           ELSE /\ scheduledPosts' =
                      [scheduledPosts EXCEPT
                          ![postIndex] = Published(@, now)]
                /\ resp' = Reply("publish-now", 200,
                                 "Post published successfully", target)
                /\ UNCHANGED nextObj

-----------------------------------------------------------------------------
(* cron.schedule('* * * * *'): the sweep at the start of every minute *)

\* Mutant: the sweep matches on date and time alone
CronSelectsAnyStatus(post, t, offset) ==
    /\ post.scheduledDate = CurrentDate(t)
    /\ post.scheduledTime = CurrentTime(t, offset)

\* post.status === 'scheduled' && post.scheduledDate === currentDate &&
\* post.scheduledTime === currentTime
CronSelects(post, t, offset) ==
    /\ post.status = "scheduled"
    /\ post.scheduledDate = CurrentDate(t)
    /\ post.scheduledTime = CurrentTime(t, offset)

\* Mutant: the sweep recomputes the status of every item from the clock
SweepRecomputingStatus(posts, t, offset) ==
    [i \in 1..Len(posts) |->
        IF /\ posts[i].scheduledDate = CurrentDate(t)
           /\ posts[i].scheduledTime = CurrentTime(t, offset)
        THEN [posts[i] EXCEPT !.status = "published",
                              !.publishedAt = Some(t), !.updatedAt = Some(t),
                              !.picked = @ + 1]
        ELSE [posts[i] EXCEPT !.status = "scheduled"]]

\* Mutant: the sweep stamps every item it visits
SweepTouchingAll(posts, t, offset) ==
    [i \in 1..Len(posts) |->
        IF CronSelects(posts[i], t, offset)
        THEN Published(posts[i], t)
        ELSE [posts[i] EXCEPT !.updatedAt = Some(t)]]

Sweep(posts, t, offset) ==
    [i \in 1..Len(posts) |->
        IF CronSelects(posts[i], t, offset)
        THEN Published(posts[i], t) ELSE posts[i]]

CronTick ==
    /\ now < MaxNow
    /\ now' = now + 1
    /\ scheduledPosts' = Sweep(scheduledPosts, now + 1, tz)
    /\ resp' = Reply("tick", 0, "", 0)
    /\ UNCHANGED <<tz, nreq, nextObj, postCollection, frame>>

-----------------------------------------------------------------------------
(* POST /api/social/publish *)

SocialPlatforms == {"twitter", "linkedin", "instagram"}

PublishBody(c, p) == [content |-> c, platforms |-> p]

\* Every list of up to MaxTargets platforms, repeats included
PlatformLists ==
    UNION {[1..n -> SocialPlatforms] : n \in 0..MaxTargets}

\* Lists of accepted platforms with a content, and the requests the
\* validators refuse: no content, platforms that is no array, a platform
\* outside the list
PublishBodies ==
    {PublishBody(Some("c"), Some(l)) : l \in PlatformLists}
        \cup {PublishBody(Some(""), Some(<<"twitter">>)),
              PublishBody(None, Some(<<"twitter">>)),
              PublishBody(Some("c"), None),
              PublishBody(Some("c"), Some(<<"twitter", "facebook">>))}

\* notEmpty(), isArray(), platforms.* isIn([...])
PublishValid(b) ==
    /\ IsSome(b.content) /\ Val(b.content) # ""
    /\ IsSome(b.platforms)
    /\ \A k \in 1..Len(Val(b.platforms)) :
           Val(b.platforms)[k] \in SocialPlatforms

\* new Post({userId, content, platform, mediaUrls, status, publishedAt,
\* createdAt}): the document keeps the paths the schema declares, and the
\* schema declares none of userId, platform, mediaUrls and publishedAt
NewDocument(userId, content, platform) ==
    [user |-> None, content |-> content, status |-> "published"]

\* The validation save() runs first: user and content are required, status
\* is one of the enumeration
Validates(doc) ==
    /\ IsSome(doc.user)
    /\ doc.content # ""
    /\ doc.status \in {"draft", "scheduled", "published", "failed"}

\* The result of a platform whose document was saved
Succeeded(platform, postId) ==
    [success |-> TRUE, platform |-> platform, postId |-> Some(postId),
     error |-> None]

\* Mutant: a save that throws leaves no result
UncaughtResults(results, platform) == results

\* catch (error) { publishResults.push({success: false, platform, error}) }
CaughtResults(results, platform) ==
    Append(results,
           [success |-> FALSE, platform |-> platform, postId |-> None,
            error |-> Some("Failed to publish to " \o platform)])

SuccessCount(results) ==
    Cardinality({k \in 1..Len(results) : results[k].success})

\* Mutant: success tells that something was asked for
PublishedAnyRequested(results) ==
    [code |-> 200, success |-> Len(results) > 0,
     message |-> "Published to n/m platforms successfully",
     results |-> results,
     summary |-> Some([total |-> Len(results),
                       successful |-> SuccessCount(results),
                       failed |-> Len(results) - SuccessCount(results)])]

\* res.json({success: successCount > 0, message, results, summary})
PublishedResponse(results) ==
    [code |-> 200, success |-> SuccessCount(results) > 0,
     message |-> "Published to n/m platforms successfully",
     results |-> results,
     summary |-> Some([total |-> Len(results),
                       successful |-> SuccessCount(results),
                       failed |-> Len(results) - SuccessCount(results)])]

ErrorResponse(code, message) ==
    [code |-> code, success |-> FALSE, message |-> message,
     results |-> <<>>, summary |-> None]

\* The request comes in: middleware, validators, and the handler up to its
\* first await (the save of the first platform) or, with no platform at
\* all, to its response
PublishRequest(token, b) ==
    /\ frame.pc \in {"idle", "sent"}
    /\ nreq < MaxRequests
    /\ nreq' = nreq + 1
    /\ frame' =
          IF ~Authenticated(token)
          THEN [Idle EXCEPT !.pc = "sent",
                    !.response = Some(ErrorResponse(401,
                        IF token.kind = "none"
                        THEN "Access denied. No token provided."
                        ELSE "Invalid token"))]
          ELSE IF ~PublishValid(b)
          THEN [Idle EXCEPT !.pc = "sent",
                    !.response = Some(ErrorResponse(400, "Validation errors"))]
          ELSE IF Val(b.platforms) = <<>>
          THEN [Idle EXCEPT !.pc = "sent", !.userId = token.userId,
                    !.content = Val(b.content),
                    !.response = Some(PublishedResponse(<<>>))]
          ELSE [Idle EXCEPT !.pc = "loop", !.userId = token.userId,
                    !.content = Val(b.content),
                    !.platforms = Val(b.platforms)]
    /\ UNCHANGED <<scheduledPosts, now, tz, resp, nextObj, postCollection>>

\* await newPost.save() settles for the platform in turn: the document is
\* stored when it validates and the database takes it, and the save throws
\* otherwise; the loop goes on to the next platform, or to the response
\* after the last
SaveSettles ==
    /\ frame.pc = "loop"
    /\ \E databaseUp \in BOOLEAN :
          LET platform == frame.platforms[frame.i + 1]
              newPost == NewDocument(frame.userId, frame.content, platform)
              saved == Validates(newPost) /\ databaseUp
              results ==
                  IF saved
                  THEN Append(frame.publishResults,
                              Succeeded(platform, Len(postCollection) + 1))
                  ELSE CaughtResults(frame.publishResults, platform)
          IN  /\ postCollection' =
                    IF saved THEN Append(postCollection, newPost)
                    ELSE postCollection
              /\ frame' =
                    IF frame.i + 1 < Len(frame.platforms)
                    THEN [frame EXCEPT !.i = @ + 1,
                                       !.publishResults = results]
                    ELSE [frame EXCEPT !.pc = "sent", !.i = @ + 1,
                                       !.publishResults = results,
                                       !.response =
                                           Some(PublishedResponse(results))]
    /\ UNCHANGED <<scheduledPosts, now, tz, resp, nreq, nextObj>>

-----------------------------------------------------------------------------
(* POST /api/social/schedule *)

ScheduleBody(c, p, d, t) ==
    [content |-> c, platforms |-> p, scheduledDate |-> d, scheduledTime |-> t]

\* A content for every list of platforms and every day, and the requests
\* the validators refuse
SocialScheduleBodies ==
    {ScheduleBody(Some("c"), Some(l), Some(DateStr(d)), Some(TimeStr(0))) :
        l \in PlatformLists, d \in Days}
        \cup {ScheduleBody(Some(""), Some(<<"twitter">>),
                           Some(DateStr(MaxDay)), Some(TimeStr(0))),
              ScheduleBody(Some("c"), None,
                           Some(DateStr(MaxDay)), Some(TimeStr(0))),
              ScheduleBody(Some("c"), Some(<<"facebook">>),
                           Some(DateStr(MaxDay)), Some(TimeStr(0))),
              ScheduleBody(Some("c"), Some(<<"twitter">>),
                           Some(BadDate), Some(TimeStr(0))),
              ScheduleBody(Some("c"), Some(<<"twitter">>),
                           Some(DateStr(MaxDay)), Some(BadTime))}

SocialScheduleValid(b) ==
    /\ IsSome(b.content) /\ Val(b.content) # ""
    /\ IsSome(b.platforms)
    /\ \A k \in 1..Len(Val(b.platforms)) :
           Val(b.platforms)[k] \in SocialPlatforms
    /\ IsSome(b.scheduledDate) /\ IsISO8601(Val(b.scheduledDate))
    /\ IsSome(b.scheduledTime) /\ MatchesTime(Val(b.scheduledTime))

\* const scheduledPosts = platforms.map(platform => ({...})): a constant of
\* the handler, not the store of the schedule routes
ScheduledItems(userId, b, t) ==
    [k \in 1..Len(Val(b.platforms)) |->
        [id |-> <<"scheduled", Val(b.platforms)[k], t>>,
         platform |-> Val(b.platforms)[k],
         content |-> Val(b.content),
         scheduledDate |-> Val(b.scheduledDate),
         scheduledTime |-> Val(b.scheduledTime),
         mediaUrls |-> Some(<<>>),
         status |-> "scheduled",
         userId |-> userId,
         createdAt |-> t]]

\* The handler answers with the items it built and keeps none of them
SocialSchedule(token, b) ==
    /\ Request
    /\ IF ~Authenticated(token)
       THEN Rejected(AuthReply("social-schedule", token))
       ELSE IF ~SocialScheduleValid(b)
       THEN Rejected(Reply("social-schedule", 400, "Validation errors", 0))
       ELSE /\ resp' = [op |-> "social-schedule", code |-> 200,
                        message |-> "Content scheduled for n platform(s)",
                        target |-> 0,
                        scheduledPosts |->
                            ScheduledItems(token.userId, b, now)]
            /\ UNCHANGED <<scheduledPosts, nextObj>>

-----------------------------------------------------------------------------

Next ==
    \/ \E b \in CreateBodies :
            \E token \in Credentials(b = Base(DateStr(MaxDay), TimeStr(0))) :
                CreatePost(token, b)
    \/ \E postId \in PostIds, b \in UpdateBodies :
            \E token \in Credentials(postId = 1 /\ b = NoPatch) :
                UpdatePost(token, postId, b)
    \/ \E postId \in PostIds :
            \E token \in Credentials(postId = 1) : DeletePost(token, postId)
    \/ \E postId \in PostIds :
            \E token \in Credentials(postId = 1) : PublishNow(token, postId)
    \/ CronTick

Spec == Init /\ [][Next]_vars

\* An item user 1 created the day before day 0, for 00:00 of day 0
Filler(k) ==
    [obj |-> Len(MockPosts) + k, id |-> Len(MockPosts) + k, userId |-> 1,
     content |-> "a", platform |-> "twitter",
     scheduledDate |-> DateStr(0), scheduledTime |-> TimeStr(0),
     status |-> "scheduled", mediaUrls |-> Some(<<>>), tags |-> Some(<<>>),
     createdAt |-> 0 - DayLen, updatedAt |-> Some(0 - DayLen),
     publishedAt |-> None, picked |-> 0, setAt |-> Some(0 - DayLen)]

\* The store after user 1 has created up to MaxFill items on top of the seeds
InitList ==
    /\ \E n \in 0..MaxFill :
          /\ scheduledPosts = MockPosts \o [k \in 1..n |-> Filler(k)]
          /\ nextObj = Len(MockPosts) + n + 1
    /\ now \in 0..MaxStart
    /\ tz \in TzOffsets
    /\ resp = Reply("start", 0, "", 0)
    /\ nreq = 0
    /\ postCollection = <<>>
    /\ frame = Idle

\* Creation requests whose date and time parse
ListBodies ==
    {b \in CreateBodies :
        /\ IsSome(b.scheduledDate) /\ Val(b.scheduledDate).plain
        /\ IsSome(b.scheduledTime) /\ Val(b.scheduledTime).pad}

\* Creations on a store of any length up to a page and more
NextList ==
    \E b \in ListBodies, u \in Users : CreatePost(ValidToken(u), b)

SpecList == InitList /\ [][NextList]_vars

\* The store after user 1 has deleted post 1
InitIds ==
    /\ scheduledPosts = Splice(MockPosts, 1)
    /\ now \in 0..MaxStart
    /\ tz \in TzOffsets
    /\ resp = Reply("delete", 200, "Scheduled post deleted successfully", 1)
    /\ nreq = 0
    /\ nextObj = Len(MockPosts) + 1
    /\ postCollection = <<>>
    /\ frame = Idle

\* The schedule routes after a delete
SpecIds == InitIds /\ [][Next]_vars

\* POST /api/social/schedule and the sweep of the schedule routes
NextSchedule ==
    \/ \E b \in SocialScheduleBodies :
            \E token \in Credentials(b = ScheduleBody(Some("c"),
                                          Some(<<"twitter">>),
                                          Some(DateStr(MaxDay)),
                                          Some(TimeStr(0)))) :
                SocialSchedule(token, b)
    \/ CronTick

SpecSchedule == Init /\ [][NextSchedule]_vars

\* The publish route alone
NextSocial ==
    \/ \E b \in PublishBodies :
            \E token \in Credentials(b = PublishBody(Some("c"), Some(<<"twitter">>))) :
                PublishRequest(token, b)
    \/ SaveSettles

SpecSocial == Init /\ [][NextSocial]_vars

-----------------------------------------------------------------------------
(* Vocabulary of the properties *)

Posts == {scheduledPosts[i] : i \in 1..Len(scheduledPosts)}
PostsAfter == {scheduledPosts'[i] : i \in 1..Len(scheduledPosts')}

\* The instant an item's date and time denote, read as server local time
ScheduledInstant(post) ==
    post.scheduledDate.day * DayLen + post.scheduledTime.min - tz

\* The instant the date and time of a request denote
RequestedInstant(d, t) == d.day * DayLen + t.min - tz

TerminalStatuses == {"published", "partially_published", "failed"}

FixedEnumeration == {"twitter", "linkedin", "instagram", "facebook"}

\* Every pair (before, after) of the same object over a step
SameObject(p, q) == p.obj = q.obj

-----------------------------------------------------------------------------
C2_LoserChangesNothing ==
    [][ /\ resp'.op \in {"publish-now", "tick"} =>
             \A p \in Posts : \A q \in PostsAfter :
                 (SameObject(p, q) /\ p.status # "scheduled") => q = p
        /\ (/\ resp'.op = "publish-now"
             /\ \E p \in Posts :
                   p.obj = resp'.target /\ p.status # "scheduled")
               => (resp'.code = 400 /\ scheduledPosts' = scheduledPosts)
      ]_vars

\* A publish-now has been rejected on an item that was claimed before
C2_Witness ==
    /\ resp.op = "publish-now"
    /\ resp.code = 400
    /\ resp.message = "Post is not in scheduled status"
    /\ \E p \in Posts :
          p.obj = resp.target /\ p.status = "published" /\ p.picked = 1

\* C3 (as claimed): after a tick no item is left in 'scheduled' whose
\* scheduled instant is at or before the time of the tick.
C3_TickSelectsEveryDueItem ==
    resp.op = "tick" =>
        \A p \in Posts : p.status = "scheduled" => ScheduledInstant(p) > now

\* C4: status only moves forward: an item in a terminal status keeps that
\* status over every step, and no step puts an item into 'draft' or back
\* into 'scheduled'.
C4_StatusMonotonic ==
    [][ \A p \in Posts : \A q \in PostsAfter :
            SameObject(p, q) =>
                /\ p.status \in TerminalStatuses => q.status = p.status
                /\ q.status \in {"scheduled", "draft"} => q.status = p.status
      ]_vars

\* A request on a published item was rejected after a later tick had passed it
C4_Witness ==
    /\ resp.op \in {"update", "delete", "publish-now"}
    /\ resp.code = 400
    /\ \E p \in Posts :
          /\ p.obj = resp.target
          /\ p.status = "published"
          /\ Val(p.publishedAt) < now

C6_ScheduledWasFuture ==
    \A p \in Posts :
        (p.status = "scheduled" /\ IsSome(p.setAt))
            => ScheduledInstant(p) > Val(p.setAt)

\* C7 (as claimed): a creation whose date and time are not strictly after the
\* current time is answered 400 and leaves the store as it was.
C7_PastCreationRejected ==
    [][ \A b \in CreateBodies : \A u \in Users :
            (/\ CreatePost(ValidToken(u), b)
             /\ RequestedInstant(Val(b.scheduledDate), Val(b.scheduledTime))
                    <= now)
                => (resp'.code = 400 /\ scheduledPosts' = scheduledPosts)
      ]_vars

\* C8 (as claimed): a creation with content, a platform of the fixed
\* enumeration and a date and time in the future is answered 201 and appends
\* one item in 'scheduled'.
C8_ValidCreationSucceeds ==
    [][ \A b \in CreateBodies : \A u \in Users :
            (/\ CreatePost(ValidToken(u), b)
             /\ Val(b.content) # ""
             /\ Val(b.platform) \in FixedEnumeration
             /\ IsISO8601(Val(b.scheduledDate))
             /\ MatchesTime(Val(b.scheduledTime))
             /\ RequestedInstant(Val(b.scheduledDate), Val(b.scheduledTime))
                    > now)
                => /\ resp'.code = 201
                   /\ Len(scheduledPosts') = Len(scheduledPosts) + 1
                   /\ scheduledPosts'[Len(scheduledPosts')].status = "scheduled"
      ]_vars

\* C9: an update addressed to an item of the requester whose status is not
\* 'scheduled' is answered 400 and changes nothing.
C9_UpdateOfClaimedRejected ==
    [][ (/\ resp'.op = "update"
         /\ \E p \in Posts : p.obj = resp'.target /\ p.status # "scheduled")
            => (resp'.code = 400 /\ scheduledPosts' = scheduledPosts)
      ]_vars

C9_Witness ==
    /\ resp.op = "update"
    /\ resp.code = 400
    /\ resp.message = "Cannot update published post"
    /\ \E p \in Posts : p.obj = resp.target /\ p.status = "published"

\* C10 (as claimed): an update that patches the date, the time or both, and
\* would leave the item with a scheduled instant not strictly in the future,
\* is answered 400 and changes nothing.
C10_PastUpdateRejected ==
    [][ \A u \in Users, postId \in PostIds, b \in UpdateBodies :
            LET i == FindIndex(scheduledPosts, postId, u)
                d == Patch(b.scheduledDate, scheduledPosts[i].scheduledDate)
                t == Patch(b.scheduledTime, scheduledPosts[i].scheduledTime)
            IN  (/\ UpdatePost(ValidToken(u), postId, b)
                 /\ i # 0
                 /\ IsSome(b.scheduledDate) \/ IsSome(b.scheduledTime)
                 /\ RequestedInstant(d, t) <= now)
                => (resp'.code = 400 /\ scheduledPosts' = scheduledPosts)
      ]_vars

\* C11: an item leaves the store only in a delete that is answered 200, that
\* its owner addressed to it, and that found it in 'draft' or 'scheduled'; a
\* delete addressed to an item in any other status is answered 400 and
\* leaves the store as it was.
C11_DeleteOnlyDraftOrScheduled ==
    [][ /\ \A p \in Posts :
              (\A q \in PostsAfter : ~SameObject(p, q))
                  => /\ resp'.op = "delete"
                     /\ resp'.code = 200
                     /\ resp'.target = p.obj
                     /\ p.status \in {"draft", "scheduled"}
        /\ (/\ resp'.op = "delete"
             /\ \E p \in Posts :
                   /\ p.obj = resp'.target
                   /\ p.status \notin {"draft", "scheduled"})
               => (resp'.code = 400 /\ scheduledPosts' = scheduledPosts)
      ]_vars

\* A delete was refused on a published item, which is still in the store
C11_Witness ==
    /\ resp.op = "delete"
    /\ resp.code = 400
    /\ resp.message = "Cannot delete published post"
    /\ \E p \in Posts : p.obj = resp.target /\ p.status = "published"

\* C12: a publish-now is answered 200 only when the item it addresses was in
\* 'scheduled'; addressed to an item in any other status it is answered 400
\* "Post is not in scheduled status", the store stays as it was and the item
\* is not picked a second time.
C12_PublishNowOnlyFromScheduled ==
    [][ resp'.op = "publish-now" =>
            /\ resp'.code = 200 =>
                   \E p \in Posts :
                       p.obj = resp'.target /\ p.status = "scheduled"
            /\ \A p \in Posts :
                   (p.obj = resp'.target /\ p.status # "scheduled")
                       => /\ resp'.code = 400
                          /\ resp'.message = "Post is not in scheduled status"
                          /\ scheduledPosts' = scheduledPosts
                          /\ \A q \in PostsAfter :
                                 SameObject(p, q) => q.picked = p.picked
      ]_vars

\* A publish-now was refused on an item that an earlier minute had published
C12_Witness ==
    /\ resp.op = "publish-now"
    /\ resp.code = 400
    /\ \E p \in Posts :
          /\ p.obj = resp.target
          /\ IsSome(p.publishedAt)
          /\ Val(p.publishedAt) < now
          /\ p.picked = 1

\* The requests that name an item by its id
ItemOps == {"update", "delete", "publish-now"}

\* C13 (as claimed): an update, delete or publish-now that names an item of
\* another user is always answered 404 and leaves the store as it was.
C13_ForeignItemAlways404 ==
    [][ (resp'.op \in ItemOps /\ resp'.target < 0)
            => (resp'.code = 404 /\ scheduledPosts' = scheduledPosts)
      ]_vars

\* C13 (amended): an update, delete or publish-now that names an item of
\* another user gets the answer of a request that names no item at all: 404
\* "Scheduled post not found", or for an update whose body fails validation
\* 400 "Validation errors"; it leaves the store as it was.  An item changes
\* or leaves the store only in a tick or in a request its owner addressed
\* to it.
C13_ForeignItemAsAbsent ==
    [][ /\ (resp'.op \in ItemOps /\ resp'.target <= 0 /\ resp'.code # 401)
               => /\ \/ /\ resp'.code = 404
                         /\ resp'.message = "Scheduled post not found"
                      \/ /\ resp'.op = "update"
                         /\ resp'.code = 400
                         /\ resp'.message = "Validation errors"
                  /\ scheduledPosts' = scheduledPosts
        /\ \A p \in Posts :
               p \notin PostsAfter
                   => (resp'.op = "tick" \/ resp'.target = p.obj)
      ]_vars

\* A delete named an item of another user, was answered 404, and the item
\* is in the store
C13_Witness ==
    /\ resp.op = "delete"
    /\ resp.code = 404
    /\ resp.target < 0
    /\ \E p \in Posts : p.obj = 0 - resp.target /\ p.userId = 1

C15_IdsUniqueAndImmutable ==
    [][ /\ \A i, j \in 1..Len(scheduledPosts') :
               i # j => scheduledPosts'[i].id # scheduledPosts'[j].id
        /\ \A p \in Posts : \A q \in PostsAfter :
               SameObject(p, q) => q.id = p.id
      ]_vars

\* C16: a create, update, delete or publish-now that is answered with a
\* validation error, a not-found error or an invalid-state error (400 or
\* 404) leaves the whole store exactly as it was: no field of any item is
\* written and no item is added or removed.
C16_ErrorLeavesStore ==
    [][ (/\ resp'.op \in {"create"} \cup ItemOps
         /\ resp'.code \in {400, 404})
            => (scheduledPosts' = scheduledPosts /\ nextObj' = nextObj)
      ]_vars

\* An update of an item in 'scheduled' by its owner was refused because its
\* date and time are not in the future
C16_Witness ==
    /\ resp.op = "update"
    /\ resp.code = 400
    /\ resp.message = "Scheduled date and time must be in the future"
    /\ \E p \in Posts : p.obj = resp.target /\ p.status = "scheduled"

\* The targets the publish in the frame was asked for
RequestedTargets == {frame.platforms[k] : k \in 1..Len(frame.platforms)}

\* The publish in the frame has run to its response
PublishCompleted ==
    /\ frame.pc = "sent"
    /\ Val(frame.response).code = 200

\* C17 (as claimed): after a publish has completed there is exactly one
\* result for each requested target.
C17_OneResultPerTarget ==
    PublishCompleted =>
        \A t \in RequestedTargets :
            Cardinality({k \in 1..Len(frame.publishResults) :
                            frame.publishResults[k].platform = t}) = 1

\* C18: in a publish to several platforms a save that throws is recorded as
\* a failed result that names the platform and carries the error, and the
\* loop goes on: after every step the results are those of the platforms
\* processed so far, in order, and the response is sent only when every
\* requested platform has its result.
C18_ThrowingTargetRecorded ==
    /\ Len(frame.publishResults) = frame.i
    /\ \A k \in 1..Len(frame.publishResults) :
          /\ k <= Len(frame.platforms)
          /\ frame.publishResults[k].platform = frame.platforms[k]
          /\ ~frame.publishResults[k].success
                => IsSome(frame.publishResults[k].error)
    /\ PublishCompleted =>
          /\ frame.i = Len(frame.platforms)
          /\ Val(frame.response).results = frame.publishResults

\* A publish to two platforms or more has completed after the save of its
\* first platform threw
C18_Witness ==
    /\ PublishCompleted
    /\ Len(frame.platforms) >= 2
    /\ ~frame.publishResults[1].success
    /\ frame.publishResults[Len(frame.platforms)].platform
          = frame.platforms[Len(frame.platforms)]

\* The requester's items in 'scheduled' whose scheduled instant lies between
\* the current time and seven days after it
DueWithinWindow(userId) ==
    {p \in Posts :
        /\ p.userId = userId
        /\ p.status = "scheduled"
        /\ ScheduledInstant(p) >= now
        /\ ScheduledInstant(p) <= now + WindowDays * DayLen}

\* C20 (as claimed): GET /upcoming answers every user with exactly the
\* user's own items in 'scheduled' whose scheduled instant lies between now
\* and now + 7 days (the first 10 of them), in ascending order of scheduled
\* instant.
C20_UpcomingExactlyDue ==
    \A u \in Users :
        LET got == Upcoming(scheduledPosts, u, now, tz)
        IN  /\ Len(got) <= UpcomingLimit
            /\ {got[k] : k \in 1..Len(got)} \subseteq DueWithinWindow(u)
            /\ \A k \in 1..(Len(got) - 1) :
                   ScheduledInstant(got[k]) <= ScheduledInstant(got[k + 1])
            /\ Cardinality(DueWithinWindow(u)) <= UpcomingLimit
                   => {got[k] : k \in 1..Len(got)} = DueWithinWindow(u)

\* The item equals the request in every field the request supplied, and has
\* the id and the timestamps of a creation at time t
RoundTrip(item, b, t) ==
    /\ item.content = Val(b.content)
    /\ item.platform = Val(b.platform)
    /\ item.scheduledDate = Val(b.scheduledDate)
    /\ item.scheduledTime = Val(b.scheduledTime)
    /\ IsSome(b.mediaUrls) => item.mediaUrls = b.mediaUrls
    /\ IsSome(b.tags) => item.tags = b.tags
    /\ item.id \in Nat
    /\ item.createdAt = t
    /\ item.updatedAt = Some(t)

\* The list holds the item the last step created, equal to the request
Returned(list, b) ==
    \E k \in 1..Len(list) :
        list[k].obj = resp'.target /\ RoundTrip(list[k], b, now)

C22_TargetsNonEmptyDistinct ==
    (frame.pc = "loop" \/ PublishCompleted)
        => /\ frame.content # ""
           /\ frame.platforms # <<>>
           /\ \A j, k \in 1..Len(frame.platforms) :
                  /\ frame.platforms[j] \in FixedEnumeration
                  /\ j # k => frame.platforms[j] # frame.platforms[k]

\* C23: no step changes the createdAt of an item; a step that changes an
\* item (an update, a publish-now, a tick) sets its updatedAt to the time of
\* the step; updatedAt never goes back and is never before createdAt.
C23_Timestamps ==
    [][ \A p \in Posts : \A q \in PostsAfter :
            SameObject(p, q) =>
                /\ q.createdAt = p.createdAt
                /\ q # p => q.updatedAt = Some(now')
                /\ IsSome(p.updatedAt) =>
                       (IsSome(q.updatedAt)
                            /\ Val(q.updatedAt) >= Val(p.updatedAt))
                /\ IsSome(q.updatedAt) => Val(q.updatedAt) >= q.createdAt
      ]_vars

\* An item a request created was updated by its owner in a later minute
C23_Witness ==
    /\ resp.op = "update"
    /\ resp.code = 200
    /\ \E p \in Posts :
          /\ p.obj = resp.target
          /\ p.createdAt >= 0
          /\ p.createdAt < now
          /\ p.updatedAt = Some(now)

\* C24 (as claimed): an item that a request created, with a date and time
\* no later request changed, and that a tick has just published, has a
\* scheduled instant at or before the time of that tick.
C24_NeverPublishedEarly ==
    resp.op = "tick" =>
        \A p \in Posts :
            (/\ p.publishedAt = Some(now)
             /\ p.createdAt >= 0
             /\ p.setAt = Some(p.createdAt)
             /\ IsSome(PostDateTime(p, tz)))
                => ScheduledInstant(p) <= now

\* C25: a tick keeps the length and the order of the store; an item in
\* 'scheduled' whose scheduledDate and scheduledTime equal the date and the
\* HH:MM of the tick changes in status, publishedAt and updatedAt only, and
\* every other item stays as it was.
C25_TickFrame ==
    [][ resp'.op = "tick" =>
            /\ Len(scheduledPosts') = Len(scheduledPosts)
            /\ \A i \in 1..Len(scheduledPosts) :
                   LET p == scheduledPosts[i]
                       q == scheduledPosts'[i]
                   IN  IF /\ p.status = "scheduled"
                          /\ p.scheduledDate = CurrentDate(now')
                          /\ p.scheduledTime = CurrentTime(now', tz)
                       THEN [q EXCEPT !.status = p.status,
                                      !.publishedAt = p.publishedAt,
                                      !.updatedAt = p.updatedAt,
                                      !.picked = p.picked] = p
                       ELSE q = p
      ]_vars

\* A tick has published one item and left an item in 'scheduled' behind it
\* in the store
C25_Witness ==
    /\ resp.op = "tick"
    /\ \E i, j \in 1..Len(scheduledPosts) :
          /\ i < j
          /\ scheduledPosts[i].publishedAt = Some(now)
          /\ scheduledPosts[j].status = "scheduled"
          /\ ~IsSome(scheduledPosts[j].updatedAt)

\* C26: in every reachable state of the store an item has a publishedAt if
\* and only if its status is 'published', and the status of every item is
\* 'scheduled' or 'published'.
C26_PublishedAtIffPublished ==
    \A p \in Posts :
        /\ IsSome(p.publishedAt) <=> p.status = "published"
        /\ p.status \in {"scheduled", "published"}

\* After a publish-now the store holds the published item with its
\* publishedAt and an item in 'scheduled' without one
C26_Witness ==
    /\ resp.op = "publish-now"
    /\ resp.code = 200
    /\ \E p, q \in Posts :
          /\ p.obj = resp.target
          /\ p.status = "published" /\ IsSome(p.publishedAt)
          /\ q.status = "scheduled" /\ ~IsSome(q.publishedAt)

\* C27 (as claimed): an update, delete or publish-now that is answered 200
\* and names the id and owner of an item that a creation stored acts on
\* that item: it is the one removed or changed, and every other item stays
\* as it was.
C27_ActsOnCreatedItem ==
    [][ (resp'.op \in ItemOps /\ resp'.code = 200) =>
            \A c, t \in Posts :
                (/\ t.obj = resp'.target
                 /\ c.createdAt >= 0
                 /\ c.id = t.id /\ c.userId = t.userId)
                    => /\ c.obj = resp'.target
                       /\ \A p \in Posts :
                              p.obj # c.obj => p \in PostsAfter
      ]_vars

\* C28 (as claimed): after POST /api/social/schedule has answered with
\* success, every item of the response is in the store the sweep goes
\* through, in 'scheduled', with the owner, content, platform, date and time
\* of the response.
C28_ScheduledItemsHeld ==
    (resp.op = "social-schedule" /\ resp.code = 200) =>
        \A k \in 1..Len(resp.scheduledPosts) :
            \E p \in Posts :
                /\ p.userId = resp.scheduledPosts[k].userId
                /\ p.content = resp.scheduledPosts[k].content
                /\ p.platform = resp.scheduledPosts[k].platform
                /\ p.scheduledDate = resp.scheduledPosts[k].scheduledDate
                /\ p.scheduledTime = resp.scheduledPosts[k].scheduledTime
                /\ p.status = "scheduled"

\* C29: the response of a completed publish agrees with its results: total
\* is the number of requested platforms, successful and failed add up to
\* total and count the results of each kind, and success is true if and
\* only if some result succeeded, so it is false for an empty list.
C29_SummaryConsistent ==
    PublishCompleted =>
        LET response == Val(frame.response)
            summary == Val(response.summary)
            succeeded == {k \in 1..Len(response.results) :
                             response.results[k].success}
        IN  /\ summary.total = Len(frame.platforms)
            /\ summary.successful + summary.failed = summary.total
            /\ summary.successful = Cardinality(succeeded)
            /\ response.success <=> succeeded # {}
            /\ frame.platforms = <<>> => ~response.success

\* A publish to MaxTargets platforms has completed, none of them succeeded,
\* and the response says so
C29_Witness ==
    /\ PublishCompleted
    /\ Len(frame.platforms) = MaxTargets
    /\ Val(Val(frame.response).summary).failed = MaxTargets
    /\ ~Val(frame.response).success

====
